---- MODULE Spec2Model ----
(***************************************************************************)
(* Model of the dinero portfolio pipeline (src/main.py): the two broker    *)
(* parsers load_fidelity and load_schwab, the assembly of the ledger       *)
(* portfolio_df, the Yahoo enrichment (fetch_latest_prices,                *)
(* fetch_dividends), the derived columns and the per-symbol aggregation    *)
(* portfolio_norm.                                                         *)
(*                                                                         *)
(* Text is a sequence of tokens (words, or characters for numeric cells);  *)
(* the empty sequence is the null cell (read_csv reads an empty field as   *)
(* NaN).  A float is a record: a reduced fraction, NaN, +inf or -inf.      *)
(* The Description column is carried through untouched by both parsers and *)
(* is left out of the rows.                                                *)
(***************************************************************************)
EXTENDS Integers, Sequences, FiniteSets, TLC

VARIABLES
    CSV_FILES,         \* the configured input files, in list order
    fi,                \* position of the load loop in CSV_FILES (1-based)
    portfolio_frames,  \* frames appended so far by the load loop
    warnings,          \* st.warning / st.error messages issued
    pc,                \* position of the script
    portfolio_df,      \* the flat ledger
    symbols,           \* portfolio_df["Symbol"].unique().tolist()
    si,                \* position of the fetch loop in symbols (1-based)
    live_price_map,    \* prices collected by fetch_latest_prices
    div_map,           \* dividends collected by fetch_dividends
    yf_price,          \* what yfinance answered to each price lookup made
    yf_div,            \* what yfinance answered to each dividend lookup made
    portfolio_norm,    \* the per-symbol aggregate
    cash_value,        \* scalar summary
    invested_value     \* scalar summary

vars == <<CSV_FILES, fi, portfolio_frames, warnings, pc, portfolio_df, symbols,
          si, live_price_map, div_map, yf_price, yf_div, portfolio_norm,
          cash_value, invested_value>>

----------------------------------------------------------------------------
(* Bounds of the model *)

MaxFiles == 2
MaxFidelityRows == 2
MaxSchwabRows == 6
MaxNamedFiles == 3
MaxLabelLen == 2

----------------------------------------------------------------------------
(* Floats: IEEE-754 arithmetic on exact fractions, NaN and the infinities *)

Abs(x) == IF x < 0 THEN -x ELSE x

RECURSIVE GCD(_, _)
GCD(a, b) == IF b = 0 THEN a ELSE GCD(b, a % b)

Frac(n, d) ==
    LET g == GCD(Abs(n), Abs(d))
        s == IF d < 0 THEN -1 ELSE 1
    IN  [k |-> "fin", n |-> (s * n) \div g, d |-> (s * d) \div g]

Fin(n) == [k |-> "fin", n |-> n, d |-> 1]
NaN == [k |-> "nan", n |-> 0, d |-> 1]
PInf == [k |-> "inf", n |-> 1, d |-> 1]
NInf == [k |-> "inf", n |-> -1, d |-> 1]

IsNaN(x) == x.k = "nan"
IsFin(x) == x.k = "fin"
IsInf(x) == x.k = "inf"
Sign(x) == IF x.n > 0 THEN 1 ELSE IF x.n < 0 THEN -1 ELSE 0
Signed(s) == IF s > 0 THEN PInf ELSE NInf

FAdd(a, b) ==
    IF IsNaN(a) \/ IsNaN(b) THEN NaN
    ELSE IF IsInf(a) /\ IsInf(b) THEN (IF a = b THEN a ELSE NaN)
    ELSE IF IsInf(a) THEN a
    ELSE IF IsInf(b) THEN b
    ELSE Frac(a.n * b.d + b.n * a.d, a.d * b.d)

FNeg(a) == IF IsNaN(a) THEN NaN ELSE [a EXCEPT !.n = -a.n]

FSub(a, b) == FAdd(a, FNeg(b))

FMul(a, b) ==
    IF IsNaN(a) \/ IsNaN(b) THEN NaN
    ELSE IF IsInf(a) \/ IsInf(b)
         THEN (IF Sign(a) * Sign(b) = 0 THEN NaN ELSE Signed(Sign(a) * Sign(b)))
    ELSE Frac(a.n * b.n, a.d * b.d)

FDiv(a, b) ==
    IF IsNaN(a) \/ IsNaN(b) THEN NaN
    ELSE IF IsInf(a) THEN (IF IsInf(b) THEN NaN
                           ELSE Signed(Sign(a) * (IF Sign(b) < 0 THEN -1 ELSE 1)))
    ELSE IF IsInf(b) THEN Fin(0)
    ELSE IF b.n = 0 THEN (IF a.n = 0 THEN NaN ELSE Signed(Sign(a)))
    ELSE Frac(a.n * b.d, a.d * b.n)

FGt(a, b) == IsFin(a) /\ IsFin(b) /\ a.n * b.d > b.n * a.d
FGe(a, b) == IsFin(a) /\ IsFin(b) /\ a.n * b.d >= b.n * a.d

----------------------------------------------------------------------------
(* Text *)

Null == <<>>
notna(t) == t # Null
isna(t) == t = Null

\* t[i..] starts with the token sequence p
MatchAt(t, i, p) ==
    /\ i + Len(p) - 1 <= Len(t)
    /\ \A j \in 1..Len(p) : t[i + j - 1] = p[j]

\* re.search(p, t) for a literal p
Search(t, p) == \E i \in 1..Len(t) : MatchAt(t, i, p)

\* Series.str.contains("a|b|c", na=False): alts is the set of alternatives
str_contains(t, alts) == notna(t) /\ \E p \in alts : Search(t, p)

\* Series.str.extract(r"(a|b|c.*)"): the leftmost match, at one position the
\* first alternative in pattern order; an alternative with rest = TRUE ends
\* in ".*" and takes the remainder of the text.  No match gives NaN.
str_extract(t, alts) ==
    LET hits == {i \in 1..Len(t) : \E a \in 1..Len(alts) : MatchAt(t, i, alts[a].toks)}
    IN  IF isna(t) \/ hits = {} THEN Null
        ELSE LET i == CHOOSE h \in hits : \A g \in hits : h <= g
                 a == CHOOSE b \in 1..Len(alts) :
                        /\ MatchAt(t, i, alts[b].toks)
                        /\ \A c \in 1..(b - 1) : ~MatchAt(t, i, alts[c].toks)
             IN  IF alts[a].rest THEN SubSeq(t, i, Len(t))
                 ELSE alts[a].toks

Lit(p) == [toks |-> p, rest |-> FALSE]
ToEnd(p) == [toks |-> p, rest |-> TRUE]

\* str.lower() and str.upper(), token by token
LowerTok(w) ==
    CASE w = "Fidelity" -> "fidelity"
      [] w = "Schwab" -> "schwab"
      [] w = "SCHWAB" -> "schwab"
      [] w = "FIDELITY" -> "fidelity"
      [] w = "Vanguard" -> "vanguard"
      [] OTHER -> w

UpperTok(w) ==
    CASE w = "Cash" -> "CASH"
      [] w = "cash" -> "CASH"
      [] w = "Investments" -> "INVESTMENTS"
      [] w = "xyz" -> "XYZ"
      [] OTHER -> w

lower(t) == [i \in 1..Len(t) |-> LowerTok(t[i])]
upper(t) == [i \in 1..Len(t) |-> UpperTok(t[i])]

----------------------------------------------------------------------------
(* Numeric cleanup *)

Digits == {"0", "1", "2", "3", "4", "5", "6", "7", "8", "9"}

DigitVal(c) ==
    CASE c = "0" -> 0 [] c = "1" -> 1 [] c = "2" -> 2 [] c = "3" -> 3
      [] c = "4" -> 4 [] c = "5" -> 5 [] c = "6" -> 6 [] c = "7" -> 7
      [] c = "8" -> 8 [] c = "9" -> 9

RECURSIVE Decimal(_)
Decimal(s) ==
    IF s = <<>> THEN 0
    ELSE 10 * Decimal(SubSeq(s, 1, Len(s) - 1)) + DigitVal(s[Len(s)])

\* Series.str.replace(c, "") for a one-character literal c
str_replace(t, c) == SelectSeq(t, LAMBDA x : x # c)

AllDigits(s) == s # <<>> /\ \A i \in 1..Len(s) : s[i] \in Digits

\* pd.to_numeric(errors="coerce") of one text: a decimal integer with an
\* optional sign; anything else, the empty text and "nan" included, is NaN.
to_numeric(s) ==
    IF AllDigits(s) THEN Fin(Decimal(s))
    ELSE IF s # <<>> /\ s[1] = "-" /\ AllDigits(Tail(s)) THEN Fin(-Decimal(Tail(s)))
    ELSE NaN

\* astype(str): a null cell prints as "nan"
astype_str(t) == IF isna(t) THEN <<"n", "a", "n">> ELSE t

\* one cell through the "Numeric cleanup" loop body
NumericCleanup(t) == to_numeric(str_replace(str_replace(astype_str(t), "$"), ","))

----------------------------------------------------------------------------
(* Sequence helpers standing for pandas' vectorised column operations *)

\* df[mask]: the rows for which keep holds, in order, index labels kept
Filter(df, keep(_)) == SelectSeq(df, keep)

\* a column assignment: every row through f
Apply(df, f(_)) == [i \in 1..Len(df) |-> f(df[i])]

\* pd.read_csv: the index label of a row is its 0-based position in the file
read_csv(rows) == [i \in 1..Len(rows) |-> [raw |-> rows[i], idx |-> i - 1]]

One == <<"1">>    \* the float 1.0 once written into a text column

----------------------------------------------------------------------------
(* load_fidelity *)

FidelityColumns ==
    {"Account Name", "Symbol", "Quantity", "Last Price", "Current Value",
     "Cost Basis Total"}

\* columns that load_fidelity reads, each a KeyError when absent
FidelityRequired == {"Account Name", "Symbol", "Quantity", "Current Value"}

load_fidelity_raises(file) == ~(FidelityRequired \subseteq file.columns)

\* FidelityCash with the cost basis of a cash row left as exported
FidelityCash_KeepCostBasis(r) ==
    IF isna(r.raw.Quantity)
    THEN [r EXCEPT !.raw.LastPrice = One,
                   !.raw.Quantity = r.raw.CurrentValue]
    ELSE r

\* lines 31-35: cash rows (Quantity NaN) become positions at $1.00
FidelityCash(r) ==
    IF isna(r.raw.Quantity)
    THEN [r EXCEPT !.raw.LastPrice = One,
                   !.raw.CostBasisTotal = r.raw.CurrentValue,
                   !.raw.Quantity = r.raw.CurrentValue]
    ELSE r

\* lines 55-61: extract one of the known labels, then rename two of them
FidelityAccountType(t) ==
    LET e == str_extract(t, <<Lit(<<"Individual">>), Lit(<<"ROTH", "IRA">>),
                              Lit(<<"Traditional", "IRA">>)>>)
    IN  IF e = <<"Individual">> THEN <<"Brokerage">>
        ELSE IF e = <<"ROTH", "IRA">> THEN <<"Roth", "IRA">>
        ELSE e

\* lines 37-61: rename, numeric cleanup, account type
FidelityStandardise(r) ==
    [AccountType |-> FidelityAccountType(r.raw.AccountName),
     Symbol |-> r.raw.Symbol,
     Quantity |-> NumericCleanup(r.raw.Quantity),
     CurrentPrice |-> NumericCleanup(r.raw.LastPrice),
     CostBasisTotal |-> NumericCleanup(r.raw.CostBasisTotal),
     Source |-> "Fidelity",
     idx |-> r.idx]

load_fidelity(file) ==
    LET df0 == read_csv(file.rows)
        df1 == Filter(df0, LAMBDA r : notna(r.raw.AccountName))
        df2 == Apply(df1, FidelityCash)
    IN  Apply(df2, FidelityStandardise)

----------------------------------------------------------------------------
(* load_schwab *)

\* the grid row that holds the column names
SchwabHeader ==
    [Symbol |-> <<"Symbol">>, SecurityType |-> <<"Security", "Type">>,
     PctOfAcct |-> <<"%", "of", "Acct">>, Qty |-> <<"Qty">>, Price |-> <<"Price">>,
     MktVal |-> <<"Mkt", "Val">>, CostBasis |-> <<"Cost", "Basis">>]

\* line 67: raw.iloc[3] needs four rows (IndexError); lines 69-86 need the
\* promoted row to carry the column names (KeyError)
load_schwab_raises(file) == Len(file.rows) < 4 \/ file.rows[4] # SchwabHeader

AcctMarkers == {<<"Individual">>, <<"Roth">>, <<"Contributory">>}

\* lines 74-77: the label of a marker row, None for any other row
SchwabLabel(r) ==
    IF str_contains(r.raw.Symbol, AcctMarkers)
    THEN str_extract(r.raw.Symbol, <<Lit(<<"Individual">>), Lit(<<"Roth">>),
                                     ToEnd(<<"Contributory">>)>>)
    ELSE Null

\* ffill that fills every gap with the first label seen instead of the last
RECURSIVE ffill_FirstLabel(_, _)
ffill_FirstLabel(labels, carried) ==
    IF labels = <<>> THEN <<>>
    ELSE LET v == IF notna(carried) /\ isna(Head(labels)) THEN carried
                  ELSE Head(labels)
             c == IF notna(carried) THEN carried ELSE Head(labels)
         IN  <<v>> \o ffill_FirstLabel(Tail(labels), c)

\* line 78: fillna(method="ffill") over the labels of the rows, in order
RECURSIVE ffill(_, _)
ffill(labels, carried) ==
    IF labels = <<>> THEN <<>>
    ELSE LET v == IF notna(Head(labels)) THEN Head(labels) ELSE carried
         IN  <<v>> \o ffill(Tail(labels), v)

\* lines 81-86: what stays after "Remove non-holding rows"
IsHolding(r) ==
    /\ notna(r.raw.SecurityType)
    /\ r.raw.SecurityType # <<"Security", "Type">>
    /\ r.raw.SecurityType # <<"--">>
    /\ notna(r.raw.PctOfAcct)

\* lines 88-92: cash rows
SchwabCash(r) ==
    IF str_contains(r.raw.Symbol, {<<"Cash">>})
    THEN [r EXCEPT !.raw.Qty = r.raw.MktVal,
                   !.raw.CostBasis = r.raw.MktVal,
                   !.raw.Price = One]
    ELSE r

\* lines 111-119: replace(..., regex=True), the three patterns in dict order
SchwabNormalise(t) ==
    IF isna(t) THEN t
    ELSE IF Search(t, <<"Individual">>) THEN <<"Brokerage">>
    ELSE IF Search(t, <<"Roth">>) THEN <<"Roth", "IRA">>
    ELSE IF Search(t, <<"Contributory">>) \/ Search(t, <<"Traditional">>)
         THEN <<"Traditional", "IRA">>
    ELSE t

\* lines 94-119: rename, numeric cleanup, account type
SchwabStandardise(r) ==
    [AccountType |-> SchwabNormalise(r.acct),
     Symbol |-> r.raw.Symbol,
     Quantity |-> NumericCleanup(r.raw.Qty),
     CurrentPrice |-> NumericCleanup(r.raw.Price),
     CostBasisTotal |-> NumericCleanup(r.raw.CostBasis),
     Source |-> "Charles Schwab",
     idx |-> r.idx]

load_schwab(file) ==
    LET df0 == read_csv(file.rows)
        df1 == Filter(df0, LAMBDA r : notna(r.raw.Symbol))
        lab == ffill([i \in 1..Len(df1) |-> SchwabLabel(df1[i])], Null)
        df2 == [i \in 1..Len(df1) |-> [raw |-> df1[i].raw, idx |-> df1[i].idx,
                                       acct |-> lab[i]]]
        df3 == Filter(df2, IsHolding)
        df4 == Apply(df3, SchwabCash)
    IN  Apply(df4, SchwabStandardise)

----------------------------------------------------------------------------
(* Pandas operations of the script body *)

RECURSIVE Concat(_)
Concat(frames) == IF frames = <<>> THEN <<>> ELSE Head(frames) \o Concat(Tail(frames))

\* pd.concat(frames, ignore_index=True): rows in list order, relabelled 0..n-1
concat_ignore_index(frames) ==
    LET all == Concat(frames)
    IN  [i \in 1..Len(all) |-> [all[i] EXCEPT !.idx = i - 1]]

\* Series.unique().tolist(): distinct values in order of first appearance,
\* NaN included
RECURSIVE unique(_)
unique(col) ==
    IF col = <<>> THEN <<>>
    ELSE LET init == unique(SubSeq(col, 1, Len(col) - 1))
             x == col[Len(col)]
         IN  IF \E i \in 1..Len(init) : init[i] = x THEN init ELSE Append(init, x)

Column(df, f(_)) == [i \in 1..Len(df) |-> f(df[i])]

\* Series.sum() and GroupBy.sum(): NaN entries are skipped, no entry gives 0
RECURSIVE sum_skipna(_)
sum_skipna(col) ==
    IF col = <<>> THEN Fin(0)
    ELSE IF IsNaN(Head(col)) THEN sum_skipna(Tail(col))
    ELSE FAdd(Head(col), sum_skipna(Tail(col)))

\* GroupBy.first(): the first entry that is not NaN, NaN when there is none
RECURSIVE first(_)
first(col) ==
    IF col = <<>> THEN NaN
    ELSE IF IsNaN(Head(col)) THEN first(Tail(col))
    ELSE Head(col)

\* the answers of a yfinance lookup: an exception, None, or a number
Raise == [k |-> "raise", v |-> NaN]
None == [k |-> "none", v |-> NaN]
Val(n) == [k |-> "val", v |-> Fin(n)]

PriceAnswers == {Raise, None, Val(3)}
DivAnswers == {Raise, None, Val(2)}

Has(map, sym) == sym \in DOMAIN map

----------------------------------------------------------------------------
(* The script *)

\* LoadFile that compares the file name as written, without lower()
LoadFile_CaseSensitive ==
    /\ pc = "load"
    /\ fi <= Len(CSV_FILES)
    /\ LET fp == CSV_FILES[fi]
       IN  IF Search(fp.name, <<"fidelity">>)
           THEN IF load_fidelity_raises(fp)
                THEN /\ pc' = "crashed"
                     /\ UNCHANGED <<portfolio_frames, warnings>>
                ELSE /\ portfolio_frames' = Append(portfolio_frames, load_fidelity(fp))
                     /\ UNCHANGED <<pc, warnings>>
           ELSE IF Search(fp.name, <<"schwab">>)
           THEN IF load_schwab_raises(fp)
                THEN /\ pc' = "crashed"
                     /\ UNCHANGED <<portfolio_frames, warnings>>
                ELSE /\ portfolio_frames' = Append(portfolio_frames, load_schwab(fp))
                     /\ UNCHANGED <<pc, warnings>>
           ELSE /\ warnings' = Append(warnings, "Unrecognised broker")
                /\ UNCHANGED <<pc, portfolio_frames>>
    /\ fi' = fi + 1
    /\ UNCHANGED <<CSV_FILES, portfolio_df, symbols, si, live_price_map, div_map,
                   yf_price, yf_div, portfolio_norm, cash_value, invested_value>>

\* lines 126-132: one iteration of the load loop
LoadFile ==
    /\ pc = "load"
    /\ fi <= Len(CSV_FILES)
    /\ LET fp == CSV_FILES[fi]
       IN  IF Search(lower(fp.name), <<"fidelity">>)
           THEN IF load_fidelity_raises(fp)
                THEN /\ pc' = "crashed"
                     /\ UNCHANGED <<portfolio_frames, warnings>>
                ELSE /\ portfolio_frames' = Append(portfolio_frames, load_fidelity(fp))
                     /\ UNCHANGED <<pc, warnings>>
           ELSE IF Search(lower(fp.name), <<"schwab">>)
           THEN IF load_schwab_raises(fp)
                THEN /\ pc' = "crashed"
                     /\ UNCHANGED <<portfolio_frames, warnings>>
                ELSE /\ portfolio_frames' = Append(portfolio_frames, load_schwab(fp))
                     /\ UNCHANGED <<pc, warnings>>
           ELSE /\ warnings' = Append(warnings, "Unrecognised broker")
                /\ UNCHANGED <<pc, portfolio_frames>>
    /\ fi' = fi + 1
    /\ UNCHANGED <<CSV_FILES, portfolio_df, symbols, si, live_price_map, div_map,
                   yf_price, yf_div, portfolio_norm, cash_value, invested_value>>

\* lines 134-138 and the argument of line 171: stop on no frames, else
\* concatenate the frames into the ledger
Assemble ==
    /\ pc = "load"
    /\ fi > Len(CSV_FILES)
    /\ IF portfolio_frames = <<>>
       THEN /\ warnings' = Append(warnings, "No valid data loaded")
            /\ pc' = "stopped"
            /\ UNCHANGED <<portfolio_df, symbols>>
       ELSE /\ portfolio_df' = concat_ignore_index(portfolio_frames)
            /\ symbols' = unique(Column(portfolio_df', LAMBDA r : r.Symbol))
            /\ pc' = "prices"
            /\ UNCHANGED warnings
    /\ si' = 1
    /\ UNCHANGED <<CSV_FILES, fi, portfolio_frames, live_price_map, div_map,
                   yf_price, yf_div, portfolio_norm, cash_value, invested_value>>

\* FetchPrice without the try/except: an exception of the lookup ends the run
FetchPrice_NoExcept ==
    /\ pc = "prices"
    /\ si <= Len(symbols)
    /\ LET sym == symbols[si]
       IN  IF isna(sym)
           THEN /\ pc' = "crashed"
                /\ UNCHANGED <<live_price_map, yf_price>>
           ELSE IF upper(sym) = <<"CASH">>
           THEN UNCHANGED <<pc, live_price_map, yf_price>>
           ELSE \E ans \in PriceAnswers :
                /\ yf_price' = (sym :> ans) @@ yf_price
                /\ live_price_map' =
                       IF ans.k = "val" /\ FGt(ans.v, Fin(0))
                       THEN (sym :> ans.v) @@ live_price_map
                       ELSE live_price_map
                /\ pc' = IF ans = Raise THEN "crashed" ELSE pc
    /\ si' = si + 1
    /\ UNCHANGED <<CSV_FILES, fi, portfolio_frames, warnings, portfolio_df, symbols,
                   div_map, yf_div, portfolio_norm, cash_value, invested_value>>

\* lines 151-167: one iteration of the loop of fetch_latest_prices
FetchPrice ==
    /\ pc = "prices"
    /\ si <= Len(symbols)
    /\ LET sym == symbols[si]
       IN  IF isna(sym)
           THEN \* a NaN symbol is a float: sym.upper() raises outside the try
                /\ pc' = "crashed"
                /\ UNCHANGED <<live_price_map, yf_price>>
           ELSE IF upper(sym) = <<"CASH">>
           THEN UNCHANGED <<pc, live_price_map, yf_price>>
           ELSE \E ans \in PriceAnswers :
                /\ yf_price' = (sym :> ans) @@ yf_price
                /\ live_price_map' =
                       IF ans.k = "val" /\ FGt(ans.v, Fin(0))
                       THEN (sym :> ans.v) @@ live_price_map
                       ELSE live_price_map
                /\ UNCHANGED pc
    /\ si' = si + 1
    /\ UNCHANGED <<CSV_FILES, fi, portfolio_frames, warnings, portfolio_df, symbols,
                   div_map, yf_div, portfolio_norm, cash_value, invested_value>>

\* line 172
non_cash_mask(r) == r.CurrentPrice # Fin(1)

\* MapPrice without the fillna: a symbol without live price loses its price
MapPrice_NoFill(r, prices) ==
    IF non_cash_mask(r)
    THEN [r EXCEPT !.CurrentPrice =
                      IF notna(r.Symbol) /\ Has(prices, r.Symbol)
                      THEN prices[r.Symbol] ELSE NaN]
    ELSE r

\* lines 173-175 for one row
MapPrice(r, prices) ==
    IF non_cash_mask(r) /\ notna(r.Symbol) /\ Has(prices, r.Symbol)
    THEN [r EXCEPT !.CurrentPrice = prices[r.Symbol]]
    ELSE r

\* lines 168-175 and the argument of line 207: the loop is over, the live
\* prices are written into the ledger
MapPrices ==
    /\ pc = "prices"
    /\ si > Len(symbols)
    /\ portfolio_df' = [i \in 1..Len(portfolio_df) |->
                            MapPrice(portfolio_df[i], live_price_map)]
    /\ pc' = "dividends"
    /\ si' = 1
    /\ UNCHANGED <<CSV_FILES, fi, portfolio_frames, warnings, symbols, live_price_map,
                   div_map, yf_price, yf_div, portfolio_norm, cash_value,
                   invested_value>>

\* lines 188-203: one iteration of the loop of fetch_dividends
FetchDividend ==
    /\ pc = "dividends"
    /\ si <= Len(symbols)
    /\ LET sym == symbols[si]
       IN  IF isna(sym)
           THEN /\ pc' = "crashed"
                /\ UNCHANGED <<div_map, yf_div>>
           ELSE IF upper(sym) = <<"CASH">>
           THEN /\ div_map' = (sym :> Fin(0)) @@ div_map
                /\ UNCHANGED <<pc, yf_div>>
           ELSE \E ans \in DivAnswers :
                /\ yf_div' = (sym :> ans) @@ yf_div
                /\ div_map' =
                       IF ans.k = "val" /\ FGe(ans.v, Fin(0))
                       THEN (sym :> ans.v) @@ div_map
                       ELSE div_map
                /\ UNCHANGED pc
    /\ si' = si + 1
    /\ UNCHANGED <<CSV_FILES, fi, portfolio_frames, warnings, portfolio_df, symbols,
                   live_price_map, yf_price, portfolio_norm, cash_value,
                   invested_value>>

\* lines 213-215 and 230-232
PnL(position_value, cost_basis_total) ==
    FDiv(FSub(position_value, cost_basis_total), cost_basis_total)

\* lines 208-215 for one row
Derive(r, dividends) ==
    LET pv == FMul(r.Quantity, r.CurrentPrice)
    IN  [AccountType |-> r.AccountType, Symbol |-> r.Symbol, Quantity |-> r.Quantity,
         CurrentPrice |-> r.CurrentPrice, CostBasisTotal |-> r.CostBasisTotal,
         Source |-> r.Source, idx |-> r.idx,
         Dividend |-> IF notna(r.Symbol) /\ Has(dividends, r.Symbol)
                      THEN dividends[r.Symbol] ELSE Fin(0),
         PositionValue |-> pv,
         CostBasisPerShare |-> FDiv(r.CostBasisTotal, r.Quantity),
         PnL |-> PnL(pv, r.CostBasisTotal)]

\* lines 204-215: the loop is over, dividends and derived columns are attached
AttachAndDerive ==
    /\ pc = "dividends"
    /\ si > Len(symbols)
    /\ portfolio_df' = [i \in 1..Len(portfolio_df) |-> Derive(portfolio_df[i], div_map)]
    /\ pc' = "aggregate"
    /\ UNCHANGED <<CSV_FILES, fi, portfolio_frames, warnings, symbols, si,
                   live_price_map, div_map, yf_price, yf_div, portfolio_norm,
                   cash_value, invested_value>>

\* the symbols of the model's inputs in Python string order, which is the
\* order groupby sorts its keys in
SortedSymbols ==
    << <<"ABC">>, <<"CASH">>, <<"Cash", "&", "Cash", "Investments">>, <<"DEF">>,
       <<"SPAXX">>, <<"XYZ">> >>

\* lines 218-237 for one group
AggRow(df, sym) ==
    LET g == SelectSeq(df, LAMBDA r : r.Symbol = sym)
        cost == sum_skipna(Column(g, LAMBDA r : r.CostBasisTotal))
        qty == sum_skipna(Column(g, LAMBDA r : r.Quantity))
        price == first(Column(g, LAMBDA r : r.CurrentPrice))
        div == first(Column(g, LAMBDA r : r.Dividend))
        pv == FMul(qty, price)
        cbps == FDiv(cost, qty)
        yield == FDiv(div, cbps)
    IN  [Symbol |-> sym, CostBasisTotal |-> cost, Quantity |-> qty,
         CurrentPrice |-> price, Dividend |-> div, PositionValue |-> pv,
         CostBasisPerShare |-> cbps, PnL |-> PnL(pv, cost),
         AdjustedYield |-> IF IsInf(yield) THEN NaN ELSE yield]

\* lines 218-227: groupby("Symbol") drops the rows with a NaN key and sorts
\* the keys
groupby_agg(df) ==
    LET keys == SelectSeq(SortedSymbols,
                          LAMBDA s : \E i \in 1..Len(df) : df[i].Symbol = s)
    IN  [i \in 1..Len(keys) |-> AggRow(df, keys[i])]

\* lines 217-241: the normalised view and the cash / invested summary
Aggregate ==
    /\ pc = "aggregate"
    /\ portfolio_norm' = groupby_agg(portfolio_df)
    /\ cash_value' = sum_skipna(Column(
                        SelectSeq(portfolio_norm', LAMBDA r : r.CurrentPrice = Fin(1)),
                        LAMBDA r : r.PositionValue))
    /\ invested_value' = sum_skipna(Column(
                        SelectSeq(portfolio_norm', LAMBDA r : r.CurrentPrice # Fin(1)),
                        LAMBDA r : r.PositionValue))
    /\ pc' = "done"
    /\ UNCHANGED <<CSV_FILES, fi, portfolio_frames, warnings, portfolio_df, symbols,
                   si, live_price_map, div_map, yf_price, yf_div>>

----------------------------------------------------------------------------
(* Inputs: broker exports *)

FidelityRow(acct, sym, qty, price, value, cost) ==
    [AccountName |-> acct, Symbol |-> sym, Quantity |-> qty, LastPrice |-> price,
     CurrentValue |-> value, CostBasisTotal |-> cost]

\* an ordinary holding: 10 XYZ at $120, bought for $1,000
FidXYZ == FidelityRow(<<"Individual">>, <<"XYZ">>, <<"1", "0">>,
                      <<"$", "1", "2", "0">>, <<"$", "1", ",", "2", "0", "0">>,
                      <<"$", "1", ",", "0", "0", "0">>)
\* a holding in an account of an unlisted kind, its price not a number
FidPlan == FidelityRow(<<"529", "Plan">>, <<"XYZ">>, <<"5">>, <<"-", "-">>,
                       <<"$", "6", "0", "0">>, <<"$", "6", "0", "0">>)
\* a core cash position: no quantity, worth $500
FidCash == FidelityRow(<<"ROTH", "IRA">>, <<"SPAXX">>, Null, Null,
                       <<"$", "5", "0", "0">>, Null)
\* cash under the literal symbol CASH
FidCASH == FidelityRow(<<"Individual">>, <<"CASH">>, Null, Null,
                       <<"$", "5", "0">>, Null)
\* 10 shares received free of charge, quoted at exactly $1
FidFree == FidelityRow(<<"Traditional", "IRA">>, <<"ABC">>, <<"1", "0">>, <<"$", "1">>,
                       <<"$", "1", "0">>, <<"0">>)
\* a footer line: no account name
FidFooter == FidelityRow(Null, Null, Null, Null, Null, Null)
\* a line with an account name and no symbol
FidNoSymbol == FidelityRow(<<"Individual">>, Null, <<"1">>, <<"$", "2">>, <<"$", "2">>,
                           <<"$", "2">>)

FidelityName == <<"portfolio_data", "/", "fidelity", ".csv">>
SchwabName == <<"portfolio_data", "/", "charles", "_", "schwab", ".csv">>
OtherName == <<"portfolio_data", "/", "vanguard", ".csv">>

FidelityFile(cols, rows) == [name |-> FidelityName, columns |-> cols, rows |-> rows]

SchwabRow(sym, kind, pct, qty, price, value, cost) ==
    [Symbol |-> sym, SecurityType |-> kind, PctOfAcct |-> pct, Qty |-> qty,
     Price |-> price, MktVal |-> value, CostBasis |-> cost]

\* the three lines above the header line of a Schwab export
SchwabTitle == SchwabRow(<<"Positions">>, Null, Null, Null, Null, Null, Null)
SchwabPreamble == <<SchwabTitle, SchwabTitle, SchwabTitle>>

\* account-marker lines
SchRoth == SchwabRow(<<"Roth", "IRA">>, Null, Null, Null, Null, Null, Null)
SchIndividual == SchwabRow(<<"Individual">>, Null, Null, Null, Null, Null, Null)
\* a holding: 5 XYZ at $120, bought for $600
SchXYZ == SchwabRow(<<"XYZ">>, <<"Equity">>, <<"5", "0", "%">>, <<"5">>,
                    <<"$", "1", "2", "0">>, <<"$", "6", "0", "0">>,
                    <<"$", "6", "0", "0">>)
\* a holding: 2 DEF at $50, bought for $80
SchDEF == SchwabRow(<<"DEF">>, <<"Equity">>, <<"5", "0", "%">>, <<"2">>,
                    <<"$", "5", "0">>, <<"$", "1", "0", "0">>, <<"$", "8", "0">>)
\* the cash line of an account
SchCash == SchwabRow(<<"Cash", "&", "Cash", "Investments">>, <<"Cash">>,
                     <<"5", "0", "%">>, <<"-", "-">>, <<"-", "-">>,
                     <<"$", "7", "0", "0">>, <<"-", "-">>)
\* the total line of an account
SchTotal == SchwabRow(<<"Account", "Total">>, <<"--">>, <<"-", "-">>, <<"-", "-">>,
                      <<"-", "-">>, <<"$", "1", ",", "3", "0", "0">>,
                      <<"$", "6", "0", "0">>)

SchwabFile(header, body) ==
    [name |-> SchwabName, columns |-> {},
     rows |-> SchwabPreamble \o (IF header THEN <<SchwabHeader>> ELSE <<>>) \o body]

OtherFile == [name |-> OtherName, columns |-> {}, rows |-> <<>>]

\* the exports the whole script is run on
InputFiles ==
    {FidelityFile(FidelityColumns, rows) :
        rows \in {<<>>, <<FidXYZ>>, <<FidPlan>>, <<FidCash, FidFooter>>, <<FidCASH>>,
                  <<FidFree>>, <<FidNoSymbol>>, <<FidPlan, FidXYZ>>}}
    \cup {FidelityFile(FidelityColumns \ {"Account Name"}, <<FidXYZ>>)}
    \cup {SchwabFile(TRUE, body) :
            body \in {<<>>, <<SchXYZ>>, <<SchRoth, SchDEF>>, <<SchCash>>, <<SchTotal>>}}
    \cup {SchwabFile(FALSE, <<SchXYZ>>)}
    \cup {OtherFile}

SeqsUpTo(S, n) == UNION {[1..m -> S] : m \in 0..n}

----------------------------------------------------------------------------
(* The whole script on up to MaxFiles exports *)

Start(files) ==
    /\ CSV_FILES = files
    /\ fi = 1
    /\ portfolio_frames = <<>>
    /\ warnings = <<>>
    /\ pc = "load"
    /\ portfolio_df = <<>>
    /\ symbols = <<>>
    /\ si = 1
    /\ live_price_map = <<>>
    /\ div_map = <<>>
    /\ yf_price = <<>>
    /\ yf_div = <<>>
    /\ portfolio_norm = <<>>
    /\ cash_value = Fin(0)
    /\ invested_value = Fin(0)

Init == \E files \in SeqsUpTo(InputFiles, MaxFiles) : Start(files)

Next ==
    \/ LoadFile
    \/ Assemble
    \/ FetchPrice
    \/ MapPrices
    \/ FetchDividend
    \/ AttachAndDerive
    \/ Aggregate

Spec == Init /\ [][Next]_vars

----------------------------------------------------------------------------
(* load_fidelity alone, on every export of up to MaxFidelityRows lines *)

FidelityRows ==
    {FidelityRow(acct, <<"XYZ">>, qty, <<"$", "1", "2", "0">>, value,
                 <<"$", "1", ",", "0", "0", "0">>) :
        acct \in {Null, <<"Individual">>, <<"529", "Plan">>},
        qty \in {Null, <<"1", "0">>, <<"-", "-">>},
        value \in {Null, <<"$", "5", "0", "0">>, <<"1", ",", "2", "0", "0">>}}

\* An export whose Account Name column is empty on every line is left out:
\* pandas reads such a column as floats and the .str accessor of line 56
\* is not defined on it.
InitFidelity ==
    \E rows \in SeqsUpTo(FidelityRows, MaxFidelityRows) :
        /\ rows = <<>> \/ \E i \in 1..Len(rows) : rows[i].AccountName # Null
        /\ Start(<<FidelityFile(FidelityColumns, rows)>>)

NextLoad == LoadFile

SpecFidelity == InitFidelity /\ [][NextLoad]_vars

----------------------------------------------------------------------------
(* load_schwab alone, on every export of up to MaxSchwabRows lines below    *)
(* the header                                                              *)

SchContributory ==
    SchwabRow(<<"Contributory", "IRA">>, Null, Null, Null, Null, Null, Null)

SchwabRows == {SchRoth, SchIndividual, SchContributory, SchXYZ}

InitSchwab ==
    \E body \in SeqsUpTo(SchwabRows, MaxSchwabRows) : Start(<<SchwabFile(TRUE, body)>>)

SpecSchwab == InitSchwab /\ [][NextLoad]_vars

----------------------------------------------------------------------------
(* What the claims are stated in: the numbers the input cells stand for    *)
(* and the account types the marker lines stand for, written out           *)

Amount(cell) ==
    CASE cell = Null -> NaN
      [] cell = <<"-", "-">> -> NaN
      [] cell = <<"1", "0">> -> Fin(10)
      [] cell = <<"$", "1", "2", "0">> -> Fin(120)
      [] cell = <<"$", "5", "0", "0">> -> Fin(500)
      [] cell = <<"1", ",", "2", "0", "0">> -> Fin(1200)
      [] cell = <<"$", "1", ",", "0", "0", "0">> -> Fin(1000)

Brokerage == <<"Brokerage">>
RothIRA == <<"Roth", "IRA">>
TraditionalIRA == <<"Traditional", "IRA">>

IsMarkerRow(row) == row \in {SchRoth, SchIndividual, SchContributory}

MarkerType(row) ==
    CASE row = SchRoth -> RothIRA
      [] row = SchIndividual -> Brokerage
      [] row = SchContributory -> TraditionalIRA

\* the frame the load loop appended for the only file of a parser run
Parsed == portfolio_frames[1]
RawRows == CSV_FILES[1].rows

\* C2: in the Schwab parser every emitted row that has an account-marker
\* line at or above it in the file carries the account type of the nearest
\* such line; the marker "Roth IRA", three holdings, the marker "Individual"
\* and one holding give Roth IRA, Roth IRA, Roth IRA, Brokerage.
C2_ForwardFill ==
    Len(portfolio_frames) = 1 =>
        /\ \A j \in 1..Len(Parsed) :
              LET at == Parsed[j].idx + 1
                  above == {m \in 1..at : IsMarkerRow(RawRows[m])}
              IN  above # {} =>
                      LET m == CHOOSE x \in above : \A y \in above : y <= x
                      IN  Parsed[j].AccountType = MarkerType(RawRows[m])
        /\ RawRows = SchwabPreamble \o
                       <<SchwabHeader, SchRoth, SchXYZ, SchXYZ, SchXYZ, SchIndividual,
                         SchXYZ>>
             => [j \in 1..Len(Parsed) |-> Parsed[j].AccountType]
                    = <<RothIRA, RothIRA, RothIRA, Brokerage>>

\* C2 witness: the forward-fill scenario has been parsed into four rows
C2_Witness ==
    /\ Len(portfolio_frames) = 1
    /\ RawRows = SchwabPreamble \o
                   <<SchwabHeader, SchRoth, SchXYZ, SchXYZ, SchXYZ, SchIndividual,
                     SchXYZ>>
    /\ Len(Parsed) = 4
    /\ Parsed[3].AccountType = RothIRA
    /\ Parsed[4].AccountType = Brokerage

\* C4: in the Fidelity parser every line with an account name is emitted; a
\* line without a quantity comes out with quantity and cost basis equal to
\* its current value and price 1.0, a line with a quantity keeps its own
\* quantity, price and cost basis.
C4_CashSynthesis ==
    Len(portfolio_frames) = 1 =>
        /\ [j \in 1..Len(Parsed) |-> Parsed[j].idx + 1]
              = SelectSeq([i \in 1..Len(RawRows) |-> i],
                          LAMBDA i : RawRows[i].AccountName # Null)
        /\ \A j \in 1..Len(Parsed) :
              LET raw == RawRows[Parsed[j].idx + 1]
              IN  IF raw.Quantity = Null
                  THEN /\ Parsed[j].Quantity = Amount(raw.CurrentValue)
                       /\ Parsed[j].CurrentPrice = Fin(1)
                       /\ Parsed[j].CostBasisTotal = Amount(raw.CurrentValue)
                  ELSE /\ Parsed[j].Quantity = Amount(raw.Quantity)
                       /\ Parsed[j].CurrentPrice = Amount(raw.LastPrice)
                       /\ Parsed[j].CostBasisTotal = Amount(raw.CostBasisTotal)

\* C4 witness: a line without quantity worth $500.00 came out as 500 units
\* at 1.0 with cost basis 500
C4_Witness ==
    /\ Len(portfolio_frames) = 1
    /\ \E j \in 1..Len(Parsed) :
          /\ RawRows[Parsed[j].idx + 1].Quantity = Null
          /\ RawRows[Parsed[j].idx + 1].CurrentValue = <<"$", "5", "0", "0">>
          /\ Parsed[j].Quantity = Fin(500)
          /\ Parsed[j].CurrentPrice = Fin(1)
          /\ Parsed[j].CostBasisTotal = Fin(500)

----------------------------------------------------------------------------
(* Claims about the whole script *)

Unknown == <<"Unknown">>

\* the ledger as the parsers produced it, row for row with portfolio_df
ParsedLedger == Concat(portfolio_frames)

\* the export and the line each ledger row was read from
RecognisedFiles == SelectSeq(CSV_FILES, LAMBDA f : f.name # OtherName)
Origin ==
    Concat([k \in 1..Len(portfolio_frames) |->
               [j \in 1..Len(portfolio_frames[k]) |->
                   [file |-> RecognisedFiles[k],
                    raw |-> RecognisedFiles[k].rows[portfolio_frames[k][j].idx + 1]]]])

\* a cash row as the parsers define it
IsCashRow(i) ==
    IF Origin[i].file.name = FidelityName
    THEN Origin[i].raw.Quantity = Null
    ELSE \E t \in 1..Len(Origin[i].raw.Symbol) : Origin[i].raw.Symbol[t] = "Cash"

Enriched == pc \in {"aggregate", "done"}

Answered(answers, sym) == sym \in DOMAIN answers /\ answers[sym].k = "val"

\* C1: the aggregate has one row per distinct symbol of the ledger, with
\* the summed cost basis and quantity of the symbol's records and the price
\* and dividend of the first of them in ledger order, NaN included.
C1_FirstRecordWins ==
    pc = "done" =>
        /\ \A i \in 1..Len(portfolio_df) :
              \E a \in 1..Len(portfolio_norm) :
                  portfolio_norm[a].Symbol = portfolio_df[i].Symbol
        /\ \A a \in 1..Len(portfolio_norm) :
              LET g == SelectSeq(portfolio_df,
                                 LAMBDA r : r.Symbol = portfolio_norm[a].Symbol)
              IN  /\ g # <<>>
                  /\ \A b \in 1..Len(portfolio_norm) :
                        portfolio_norm[b].Symbol = portfolio_norm[a].Symbol => a = b
                  /\ portfolio_norm[a].CostBasisTotal
                        = sum_skipna(Column(g, LAMBDA r : r.CostBasisTotal))
                  /\ portfolio_norm[a].Quantity
                        = sum_skipna(Column(g, LAMBDA r : r.Quantity))
                  /\ portfolio_norm[a].CurrentPrice = g[1].CurrentPrice
                  /\ portfolio_norm[a].Dividend = g[1].Dividend

\* C3: when no file is configured or the parsers together contributed no
\* row, the script stops with the error and produces no ledger, aggregate
\* or summary.
C3_EmptyLedgerStops ==
    (pc \notin {"load", "crashed"} /\ ParsedLedger = <<>>) =>
        /\ pc = "stopped"
        /\ warnings # <<>>
        /\ warnings[Len(warnings)] = "No valid data loaded"
        /\ portfolio_norm = <<>>

\* C5: every row of the ledger has an account type, Unknown when its label
\* is not a known one or when no marker line precedes it; none is null.
C5_UnknownAccountType ==
    \A i \in 1..Len(portfolio_df) :
        portfolio_df[i].AccountType \in {Brokerage, RothIRA, TraditionalIRA, Unknown}

\* C6: a ledger record and an aggregated row with cost basis 0 have PnL NaN,
\* whatever the position value.
C6_ZeroCostBasisIsNaN ==
    /\ Enriched =>
          \A i \in 1..Len(portfolio_df) :
              portfolio_df[i].CostBasisTotal = Fin(0) => IsNaN(portfolio_df[i].PnL)
    /\ pc = "done" =>
          \A a \in 1..Len(portfolio_norm) :
              portfolio_norm[a].CostBasisTotal = Fin(0) => IsNaN(portfolio_norm[a].PnL)

C8_CashShortCircuit ==
    pc = "done" =>
        \A i \in 1..Len(portfolio_df) :
            IsCashRow(i) =>
                /\ portfolio_df[i].CurrentPrice = Fin(1)
                /\ portfolio_df[i].Dividend = Fin(0)
                /\ portfolio_df[i].Symbol \notin DOMAIN yf_price
                /\ portfolio_df[i].Symbol \notin DOMAIN yf_div

\* a recognised export without an expected column or without its header line
LacksColumns(f) ==
    \/ f.name = FidelityName /\ f.columns # FidelityColumns
    \/ f.name = SchwabName /\ \A m \in 1..Len(f.rows) : f.rows[m] # SchwabHeader

\* C9: once the load loop is past an export that lacks a column, a warning
\* is recorded and the run has not aborted.
C9_FormatErrorIsLocal ==
    \A k \in 1..Len(CSV_FILES) :
        (k < fi /\ LacksColumns(CSV_FILES[k])) => (pc # "crashed" /\ warnings # <<>>)

\* C10: a lookup that raises never aborts the run (an abort comes from an
\* export that cannot be read or from a NaN symbol), the records of the
\* failed symbol keep their parsed price, or get dividend 0, and the records
\* of every other symbol still get what the adapter answered for it.
C10_FailureIsLocal ==
    /\ pc = "crashed" =>
          \/ fi > 1 /\ fi <= Len(CSV_FILES) + 1 /\ LacksColumns(CSV_FILES[fi - 1])
          \/ si > 1 /\ si <= Len(symbols) + 1 /\ symbols[si - 1] = Null
    /\ Enriched =>
          \A i \in 1..Len(portfolio_df) :
              LET sym == ParsedLedger[i].Symbol
              IN  /\ \A t \in DOMAIN yf_price :
                        yf_price[t] = Raise =>
                            IF sym = t
                            THEN portfolio_df[i].CurrentPrice
                                    = ParsedLedger[i].CurrentPrice
                            ELSE (Answered(yf_price, sym)
                                  /\ ParsedLedger[i].CurrentPrice # Fin(1)) =>
                                     portfolio_df[i].CurrentPrice = yf_price[sym].v
                  /\ \A t \in DOMAIN yf_div :
                        yf_div[t] = Raise =>
                            IF sym = t
                            THEN portfolio_df[i].Dividend = Fin(0)
                            ELSE Answered(yf_div, sym) =>
                                     portfolio_df[i].Dividend = yf_div[sym].v

\* C10 witness: the run is complete although the price and the dividend
\* lookup of one symbol raised; its record kept the parsed price with
\* dividend 0 and the record of another symbol got the adapter's answers
C10_Witness ==
    /\ pc = "done"
    /\ \E i, j \in 1..Len(portfolio_df) :
          /\ portfolio_df[i].Symbol \in DOMAIN yf_price
          /\ portfolio_df[i].Symbol \in DOMAIN yf_div
          /\ yf_price[portfolio_df[i].Symbol] = Raise
          /\ yf_div[portfolio_df[i].Symbol] = Raise
          /\ portfolio_df[i].CurrentPrice = Fin(120)
          /\ portfolio_df[i].Dividend = Fin(0)
          /\ Answered(yf_price, portfolio_df[j].Symbol)
          /\ Answered(yf_div, portfolio_df[j].Symbol)
          /\ ParsedLedger[j].CurrentPrice = Fin(50)
          /\ portfolio_df[j].CurrentPrice = Fin(3)
          /\ portfolio_df[j].Dividend = Fin(2)

----------------------------------------------------------------------------
(* The load loop and the assembly on up to MaxNamedFiles exports whose      *)
(* names are written in several ways                                       *)

FidelityCapsName == <<"Fidelity", "_", "2024", ".csv">>
SchwabCapsName == <<"SCHWAB", ".csv">>
PositionsName == <<"positions", ".csv">>

NamedFiles ==
    {[name |-> n, columns |-> FidelityColumns, rows |-> <<FidXYZ>>] :
        n \in {FidelityName, FidelityCapsName}}
    \cup {[name |-> n, columns |-> {},
           rows |-> SchwabPreamble \o <<SchwabHeader, SchRoth, SchDEF>>] :
            n \in {SchwabName, SchwabCapsName}}
    \cup {[name |-> n, columns |-> FidelityColumns, rows |-> <<FidXYZ>>] :
            n \in {OtherName, PositionsName}}

InitNames == \E files \in SeqsUpTo(NamedFiles, MaxNamedFiles) : Start(files)

NextAssemble == LoadFile \/ Assemble

SpecNames == InitNames /\ [][NextAssemble]_vars

\* the broker each file name of NamedFiles names, written out
BrokerOf(name) ==
    CASE name \in {FidelityName, FidelityCapsName} -> "fidelity"
      [] name \in {SchwabName, SchwabCapsName} -> "schwab"
      [] OTHER -> "none"

\* the files the load loop is past, and what it has to have made of them
Visited == SubSeq(CSV_FILES, 1, fi - 1)
Known == SelectSeq(Visited, LAMBDA f : BrokerOf(f.name) # "none")
Skipped == SelectSeq(Visited, LAMBDA f : BrokerOf(f.name) = "none")
ExpectedFrames ==
    [k \in 1..Len(Known) |->
        IF BrokerOf(Known[k].name) = "fidelity" THEN load_fidelity(Known[k])
        ELSE load_schwab(Known[k])]

\* C11: a file whose name holds no broker name in any letter case gets one
\* warning and no frame; the files with a broker name are parsed, their
\* frames in list order; the run stops after the loop exactly when no file
\* was recognised and otherwise goes on with the concatenated ledger.
C11_UnknownFileSkipped ==
    /\ portfolio_frames = ExpectedFrames
    /\ pc # "crashed"
    /\ pc = "load" =>
          warnings = [k \in 1..Len(Skipped) |-> "Unrecognised broker"]
    /\ pc # "load" =>
          /\ fi = Len(CSV_FILES) + 1
          /\ (pc = "stopped") = (Known = <<>>)
          /\ Known # <<>> =>
                /\ pc = "prices"
                /\ warnings = [k \in 1..Len(Skipped) |-> "Unrecognised broker"]
                /\ portfolio_df = concat_ignore_index(ExpectedFrames)

\* C11 witness: an unrecognised file between SCHWAB.csv and Fidelity_2024.csv
\* was skipped with a warning and the ledger holds the Schwab row, then the
\* Fidelity row
C11_Witness ==
    /\ pc = "prices"
    /\ Len(CSV_FILES) = 3
    /\ CSV_FILES[1].name = SchwabCapsName
    /\ CSV_FILES[2].name = PositionsName
    /\ CSV_FILES[3].name = FidelityCapsName
    /\ warnings = <<"Unrecognised broker">>
    /\ [i \in 1..Len(portfolio_df) |-> portfolio_df[i].Source]
          = <<"Charles Schwab", "Fidelity">>

\* C12: every row a parser hands over, and so every row of the ledger that
\* the price mapping, the derived columns and the aggregation read, has a
\* symbol and an account type that are not null; the raw lines that would
\* give a null one were dropped inside the parser.
C12_NonNullKeys ==
    /\ \A k \in 1..Len(portfolio_frames) :
          \A i \in 1..Len(portfolio_frames[k]) :
              /\ notna(portfolio_frames[k][i].Symbol)
              /\ notna(portfolio_frames[k][i].AccountType)
    /\ \A i \in 1..Len(portfolio_df) :
          /\ notna(portfolio_df[i].Symbol)
          /\ notna(portfolio_df[i].AccountType)

----------------------------------------------------------------------------
(* The two parsers on one account label: a Fidelity export whose one line   *)
(* carries the label as Account Name, and a Schwab export whose marker line *)
(* carries the same label above one holding                                 *)

LabelWords == {"Individual", "individual", "Roth", "ROTH", "roth", "IRA",
               "Traditional", "Contributory", "CONTRIBUTORY", "Joint"}

Labels == SeqsUpTo(LabelWords, MaxLabelLen) \ {<<>>}

FidelityLabelled(label) ==
    FidelityFile(FidelityColumns,
                 <<FidelityRow(label, <<"XYZ">>, <<"1", "0">>, <<"$", "1", "2", "0">>,
                               <<"$", "1", ",", "2", "0", "0">>,
                               <<"$", "1", ",", "0", "0", "0">>)>>)

SchwabLabelled(label) ==
    SchwabFile(TRUE, <<SchwabRow(label, Null, Null, Null, Null, Null, Null), SchXYZ>>)

InitLabels ==
    \E label \in Labels : Start(<<FidelityLabelled(label), SchwabLabelled(label)>>)

SpecLabels == InitLabels /\ [][NextLoad]_vars

\* a word of a label in lower case, written out
FoldWord(w) ==
    CASE w \in {"Individual", "individual"} -> "individual"
      [] w \in {"Roth", "ROTH", "roth"} -> "roth"
      [] w = "Traditional" -> "traditional"
      [] w \in {"Contributory", "CONTRIBUTORY"} -> "contributory"
      [] OTHER -> w

HasWord(label, w) == \E i \in 1..Len(label) : FoldWord(label[i]) = w

\* the account types whose key words a label holds, in any letter case
TypesNamed(label) ==
    (IF HasWord(label, "individual") THEN {Brokerage} ELSE {})
    \cup (IF HasWord(label, "roth") THEN {RothIRA} ELSE {})
    \cup (IF HasWord(label, "contributory") \/ HasWord(label, "traditional")
          THEN {TraditionalIRA} ELSE {})

\* C13: once both exports are parsed, the Fidelity line and the Schwab
\* holding, which carry the same label, have the same account type, and when
\* the label names one account type by its key word, in any letter case,
\* that type is the one both have.
C13_SameMappingRules ==
    (pc = "load" /\ fi = 3 /\ Len(portfolio_frames) = 2
       /\ Len(portfolio_frames[1]) = 1 /\ Len(portfolio_frames[2]) = 1) =>
        LET label == CSV_FILES[1].rows[1].AccountName
            a == portfolio_frames[1][1].AccountType
            b == portfolio_frames[2][1].AccountType
        IN  /\ a = b
            /\ \A t \in TypesNamed(label) : TypesNamed(label) = {t} => a = t /\ b = t

====
